---- MODULE Spec2Model ----
(***************************************************************************)
(* Model of opentelemetry.ext.asgi (src/opentelemetry/ext/asgi/__init__.py)*)
(*                                                                         *)
(* The library is a set of module-level functions and one middleware       *)
(* class.  Every Python call is modelled as an operator that yields an     *)
(* outcome record: exc is "None" when the call returned, otherwise the     *)
(* name of the exception that left the call; val is the returned value.    *)
(* Statements are evaluated in source order, so the first raising          *)
(* sub-expression decides the outcome.                                     *)
(*                                                                         *)
(* Values: Python ints are TLA+ integers inside [int |-> n], Python str    *)
(* status values are character sequences inside [str |-> <<..>>], None is  *)
(* [none |-> TRUE].  Scope and URL strings are TLA+ strings.  A (host,     *)
(* port) pair is a 2-tuple and None in such a slot is the empty tuple.     *)
(* The value a top-level call returns is kept with its Python type:        *)
(* [enum |-> m], [list |-> l], [dict |-> d], [text |-> s] or None.         *)
(***************************************************************************)
EXTENDS Integers, Sequences, FiniteSets, TLC

VARIABLES call, ret, spans, log, sent, got

vars == <<call, ret, spans, log, sent, got>>

-----------------------------------------------------------------------------
(* Bounds of the explored inputs.                                          *)

\* status codes explored are -CodeBound .. CodeBound
CodeBound == 620

\* longest application script (number of receive/send calls of the app)
MaxScript == 2

-----------------------------------------------------------------------------
(* Python values and outcomes.                                             *)

PyNone == [none |-> TRUE]

PyInt(n) == [int |-> n]

PyStr(s) == [str |-> s]

IsInt(v) == DOMAIN v = {"int"}

IsStr(v) == DOMAIN v = {"str"}

PyEnum(m) == [enum |-> m]

IsEnum(v) == DOMAIN v = {"enum"}

PyList(l) == [list |-> l]

PyDict(d) == [dict |-> d]

PyText(s) == [text |-> s]

Return(v) == [exc |-> "None", val |-> v]

Raise(e) == [exc |-> e, val |-> PyNone]

\* a dict is a function from its keys; d[k] raises KeyError for a missing key
DictItem(d, k) == IF k \in DOMAIN d THEN Return(d[k]) ELSE Raise("KeyError")

\* dict.get(k): the value, or none when the key is missing
DictGet(d, k, none) == IF k \in DOMAIN d THEN d[k] ELSE none

\* dic[key] = value
DictSet(d, k, v) == [x \in DOMAIN d \cup {k} |-> IF x = k THEN v ELSE d[x]]

EmptyDict == [x \in {} |-> 0]

-----------------------------------------------------------------------------
(* StatusCanonicalCode members used by the module.                         *)

StatusCanonicalCode ==
    {"OK", "UNKNOWN", "INVALID_ARGUMENT", "DEADLINE_EXCEEDED", "NOT_FOUND",
     "PERMISSION_DENIED", "UNAUTHENTICATED", "RESOURCE_EXHAUSTED",
     "UNIMPLEMENTED", "UNAVAILABLE", "INTERNAL"}

\* Status(canonical_code, description=None)
Status(code, description) == [canonical_code |-> code, description |-> description]

-----------------------------------------------------------------------------
(* http_status_to_canonical_code: the if-cascade of the source, in order.  *)

http_status_to_canonical_code_lt299(code, allow_redirect) ==
    IF code < 100 THEN "UNKNOWN"
    ELSE IF code < 299 THEN "OK"
    ELSE IF code <= 399 THEN
        IF allow_redirect THEN "OK" ELSE "DEADLINE_EXCEEDED"
    ELSE IF code <= 499 THEN
        IF code = 401 THEN "UNAUTHENTICATED"
        ELSE IF code = 403 THEN "PERMISSION_DENIED"
        ELSE IF code = 404 THEN "NOT_FOUND"
        ELSE IF code = 429 THEN "RESOURCE_EXHAUSTED"
        ELSE "INVALID_ARGUMENT"
    ELSE IF code <= 599 THEN
        IF code = 501 THEN "UNIMPLEMENTED"
        ELSE IF code = 503 THEN "UNAVAILABLE"
        ELSE IF code = 504 THEN "DEADLINE_EXCEEDED"
        ELSE "INTERNAL"
    ELSE "UNKNOWN"

http_status_to_canonical_code(code, allow_redirect) ==
    IF code < 100 THEN "UNKNOWN"
    ELSE IF code <= 299 THEN "OK"
    ELSE IF code <= 399 THEN
        IF allow_redirect THEN "OK" ELSE "DEADLINE_EXCEEDED"
    ELSE IF code <= 499 THEN
        IF code = 401 THEN "UNAUTHENTICATED"
        ELSE IF code = 403 THEN "PERMISSION_DENIED"
        ELSE IF code = 404 THEN "NOT_FOUND"
        ELSE IF code = 429 THEN "RESOURCE_EXHAUSTED"
        ELSE "INVALID_ARGUMENT"
    ELSE IF code <= 599 THEN
        IF code = 501 THEN "UNIMPLEMENTED"
        ELSE IF code = 503 THEN "UNAVAILABLE"
        ELSE IF code = 504 THEN "DEADLINE_EXCEEDED"
        ELSE "INTERNAL"
    ELSE "UNKNOWN"

-----------------------------------------------------------------------------
(* Character strings (status values and status messages).                  *)

Digits == <<"0", "1", "2", "3", "4", "5", "6", "7", "8", "9">>

IsDigit(c) == \E i \in 1..10 : Digits[i] = c

DigitVal(c) == (CHOOSE i \in 1..10 : Digits[i] = c) - 1

\* str.strip() on blanks
RECURSIVE LStrip(_)
LStrip(s) == IF s # <<>> /\ Head(s) = " " THEN LStrip(Tail(s)) ELSE s

RECURSIVE RStrip(_)
RStrip(s) ==
    IF s # <<>> /\ s[Len(s)] = " " THEN RStrip(SubSeq(s, 1, Len(s) - 1)) ELSE s

Strip(s) == RStrip(LStrip(s))

\* value of a non-empty sequence of decimal digits
RECURSIVE DigitsVal(_)
DigitsVal(s) ==
    IF s = <<>> THEN 0
    ELSE 10 * DigitsVal(SubSeq(s, 1, Len(s) - 1)) + DigitVal(s[Len(s)])

AllDigits(s) == s # <<>> /\ \A i \in 1..Len(s) : IsDigit(s[i])

\* decimal digits of a natural number
RECURSIVE NatToChars(_)
NatToChars(n) ==
    IF n < 10 THEN <<Digits[n + 1]>>
    ELSE NatToChars(n \div 10) \o <<Digits[(n % 10) + 1]>>

IntToChars(n) == IF n < 0 THEN <<"-">> \o NatToChars(0 - n) ELSE NatToChars(n)

\* s contains sub as a contiguous run
Contains(s, sub) ==
    \E i \in 0..(Len(s) - Len(sub)) : SubSeq(s, i + 1, i + Len(sub)) = sub

-----------------------------------------------------------------------------
(* Built-ins used by set_status_code.                                      *)

\* int(x): an int is returned as is; a str is stripped, may carry one sign
\* and must then be all decimal digits, else ValueError; None is a TypeError.
int(x) ==
    IF IsInt(x) THEN Return(x.int)
    ELSE IF IsStr(x) THEN
        LET t == Strip(x.str)
            signed == t # <<>> /\ Head(t) \in {"+", "-"}
            body == IF signed THEN Tail(t) ELSE t
        IN  IF AllDigits(body)
            THEN Return(IF signed /\ Head(t) = "-"
                        THEN 0 - DigitsVal(body) ELSE DigitsVal(body))
            ELSE Raise("ValueError")
    ELSE Raise("TypeError")

\* repr(x)
repr(x) ==
    IF IsStr(x) THEN <<"'">> \o x.str \o <<"'">>
    ELSE IF IsInt(x) THEN IntToChars(x.int)
    ELSE <<"N", "o", "n", "e">>

NonIntegerPrefix ==
    <<"N", "o", "n", "-", "i", "n", "t", "e", "g", "e", "r", " ",
      "H", "T", "T", "P", " ", "s", "t", "a", "t", "u", "s", ":", " ">>

-----------------------------------------------------------------------------
(* Spans of the external tracer: the name, the kind, the attributes, every  *)
(* Status handed to set_status in call order, and whether end() was called.*)

NewSpan(name, kind, attributes) ==
    [name |-> name, kind |-> kind, attributes |-> attributes,
     status |-> <<>>, ended |-> FALSE]

set_attribute(span, key, value) ==
    [span EXCEPT !.attributes = DictSet(span.attributes, key, value)]

set_status(span, status) == [span EXCEPT !.status = Append(span.status, status)]

\* set_status_code(span, status_code): the outcome and the span afterwards
set_status_code_noattr(span, status_code) ==
    LET c == int(status_code)
    IN  IF c.exc = "ValueError" THEN
            [exc |-> "None",
             span |-> set_status(span,
                        Status("UNKNOWN",
                               PyStr(NonIntegerPrefix \o repr(status_code))))]
        ELSE IF c.exc # "None" THEN
            [exc |-> c.exc, span |-> span]
        ELSE
            [exc |-> "None",
             span |-> set_status(span,
                        Status(http_status_to_canonical_code(c.val, TRUE),
                               PyNone))]

set_status_code(span, status_code) ==
    LET c == int(status_code)
    IN  IF c.exc = "ValueError" THEN
            [exc |-> "None",
             span |-> set_status(span,
                        Status("UNKNOWN",
                               PyStr(NonIntegerPrefix \o repr(status_code))))]
        ELSE IF c.exc # "None" THEN
            [exc |-> c.exc, span |-> span]
        ELSE
            [exc |-> "None",
             span |-> set_status(
                        set_attribute(span, "http.status_code", c.val),
                        Status(http_status_to_canonical_code(c.val, TRUE),
                               PyNone))]

-----------------------------------------------------------------------------
(* Built-ins used by the scope functions.                                  *)

\* str(n) for an int, as a string
RECURSIVE NatToStr(_)
NatToStr(n) ==
    IF n < 10 THEN Digits[n + 1]
    ELSE NatToStr(n \div 10) \o Digits[(n % 10) + 1]

str(n) == IF n < 0 THEN "-" \o NatToStr(0 - n) ELSE NatToStr(n)

\* a bytes object holding ASCII text
PyBytes(s) == [bytes |-> s]

\* bytes.decode("utf8"): the str with the same ASCII characters
decode(b) == b.bytes

\* sep.join(list)
RECURSIVE join(_, _)
join(sep, list) ==
    IF list = <<>> THEN ""
    ELSE IF Len(list) = 1 THEN list[1]
    ELSE list[1] \o sep \o join(sep, Tail(list))

\* d(arg) on a dict: 'dict' object is not callable
PyCallDict(d, arg) == Raise("TypeError")

\* template.format(*args, **kwargs) for a template given as its pieces, a
\* literal [lit |-> s] or a replacement field [field |-> name].  A named
\* field is looked up in kwargs only; a missing name is a KeyError.
RECURSIVE format(_, _, _)
format(pieces, args, kwargs) ==
    IF pieces = <<>> THEN Return("")
    ELSE LET p == Head(pieces)
         IN  IF "field" \in DOMAIN p /\ p.field \notin DOMAIN kwargs
             THEN Raise("KeyError")
             ELSE LET rest == format(Tail(pieces), args, kwargs)
                      text == IF "field" \in DOMAIN p THEN kwargs[p.field]
                              ELSE p.lit
                  IN  IF rest.exc # "None" THEN rest
                      ELSE Return(text \o rest.val)

-----------------------------------------------------------------------------
(* The ASGI scope is a dict: a function from the keys that are present.    *)
(* headers is a sequence of <<name, value>> pairs.                         *)

\* [value for (key, value) in scope['headers'] if key == header_name]
get_header_from_scope(scope, header_name) ==
    LET h == DictItem(scope, "headers")
    IN  IF h.exc # "None" THEN h
        ELSE LET m == SelectSeq(h.val, LAMBDA kv : kv[1] = header_name)
             IN  Return([i \in 1..Len(m) |-> m[i][2]])

DefaultServer == <<"0.0.0.0", 80>>

\* collect_request_attributes(scope), statement by statement
collect_request_attributes(scope) ==
    LET given == DictGet(scope, "server", <<>>)
        server == IF given # <<>> THEN given ELSE DefaultServer
        port == server[2]
        host == server[1] \o (IF port # 80 THEN ":" \o str(port) ELSE "")
        base == scope["scheme"] \o "://" \o host \o scope["path"]
        hasqs == "query_string" \in DOMAIN scope
                    /\ scope["query_string"] # PyBytes("")
        http_url == IF hasqs
                    THEN base \o ("?" \o decode(scope["query_string"]))
                    ELSE base
        component == PyCallDict(scope, "type")
        hosts == get_header_from_scope(scope, "host")
        result == [k \in {"component", "http.method", "http.schema",
                          "http.host", "host.port", "http.flaver",
                          "http.target", "http.url"} |->
                     CASE k = "component" -> component.val
                       [] k = "http.method" -> scope["method"]
                       [] k = "http.schema" -> scope["scheme"]
                       [] k = "http.host" -> host
                       [] k = "host.port" -> port
                       [] k = "http.flaver" -> scope["http_version"]
                       [] k = "http.target" -> scope["path"]
                       [] k = "http.url" -> http_url]
        named == IF join(",", hosts.val) # ""
                 THEN DictSet(result, "http.server_name", join(",", hosts.val))
                 ELSE result
        peered == IF "client" \in DOMAIN scope /\ scope["client"] # <<>>
                  THEN DictSet(DictSet(named, "net.peer.ip", scope["client"][1]),
                               "net.peer.port", scope["client"][2])
                  ELSE named
    IN  IF "scheme" \notin DOMAIN scope \/ "path" \notin DOMAIN scope
        THEN Raise("TypeError")
        ELSE IF component.exc # "None" THEN Raise(component.exc)
        ELSE IF {"method", "http_version"} \ DOMAIN scope # {}
        THEN Raise("KeyError")
        ELSE IF hosts.exc # "None" THEN Raise(hosts.exc)
        ELSE Return(peered)

\* "HTTP {method}".format({"method": scope.get("method")})
get_default_span_name(scope) ==
    format(<<[lit |-> "HTTP "], [field |-> "method"]>>,
           <<[method |-> DictGet(scope, "method", "None")]>>,
           EmptyDict)

-----------------------------------------------------------------------------
(* The world a request runs in: the tracer's spans and the order in which  *)
(* they start and end (with the function that did it), the events handed   *)
(* to the server's send, the events the server's receive still holds, and  *)
(* the events the application got back from its receive calls.             *)

NewWorld(inbox) ==
    [spans |-> <<>>, log |-> <<>>, sent |-> <<>>, inbox |-> inbox, got |-> <<>>]

\* tracer.start_span / tracer.start_as_current_span, entered as a context
start_span(w, name, kind, attributes, by) ==
    [w EXCEPT !.spans = Append(@, NewSpan(name, kind, attributes)),
              !.log = Append(@, [ev |-> "start", span |-> Len(w.spans) + 1,
                                 by |-> by])]

\* leaving the with block: span.end()
end_span(w, id, by) ==
    [w EXCEPT !.spans[id].ended = TRUE,
              !.log = Append(@, [ev |-> "end", span |-> id, by |-> by])]

\* the server's receive(): the next event, http.disconnect once drained
receive(w) ==
    IF w.inbox # <<>>
    THEN [val |-> Head(w.inbox), w |-> [w EXCEPT !.inbox = Tail(@)]]
    ELSE [val |-> [type |-> "http.disconnect"], w |-> w]

\* the server's send(payload)
send(w, payload) == [w EXCEPT !.sent = Append(@, payload)]

\* Every operator below takes the values computed so far as parameters, so
\* that a statement of the source is evaluated once, in source order.

\* line 179, after set_status_code gave c
receive_text(c, text) ==
    IF c.exc # "None" THEN c
    ELSE [exc |-> "None", span |-> set_attribute(c.span, "http.status_text", text)]

\* lines 177-179: what the received payload does to the receive span sp;
\* t is payload['type']
receive_status(sp, t) ==
    IF t.exc # "None" THEN [exc |-> t.exc, span |-> sp]
    ELSE IF t.val = "websocket.receive"
    THEN receive_text(set_status_code(sp, PyInt(200)), t.val)
    ELSE [exc |-> "None", span |-> sp]

\* the end of the with block and line 180: the span ends, the payload is
\* returned to the application
receive_finish(w, id, payload, st) ==
    IF st.exc # "None"
    THEN [exc |-> st.exc,
          w |-> end_span([w EXCEPT !.spans[id] = st.span], id, "wrapped_receive")]
    ELSE [exc |-> "None",
          w |-> [end_span([w EXCEPT !.spans[id] = st.span], id,
                          "wrapped_receive")
                   EXCEPT !.got = Append(@, payload)]]

\* lines 176-180 with the outcome r of receive() on the span id
receive_got(r, id) ==
    receive_finish(r.w, id, r.val,
                   receive_status(r.w.spans[id], DictItem(r.val, "type")))

\* lines 173-180, once the span name is computed: ty is scope['type'] and
\* sfx the formatted suffix
receive_named(span_name, w, ty, sfx) ==
    IF ty.exc # "None" THEN [exc |-> ty.exc, w |-> w]
    ELSE IF sfx.exc # "None" THEN [exc |-> sfx.exc, w |-> w]
    ELSE receive_got(receive(start_span(w, span_name \o sfx.val, "INTERNAL",
                                        EmptyDict, "wrapped_receive")),
                     Len(w.spans) + 1)

\* wrapped_receive(): outcome and world afterwards
wrapped_receive(span_name, scope, w) ==
    receive_named(span_name, w, DictItem(scope, "type"),
                  format(<<[lit |-> " (asgi."], [field |-> "type"],
                           [lit |-> ".receive"]>>,
                         <<[type |-> DictGet(scope, "type", "None")]>>,
                         EmptyDict))

\* line 190, after payload['sattus'] gave status_code
send_status_code(sp, status_code) ==
    IF status_code.exc # "None" THEN [exc |-> status_code.exc, span |-> sp]
    ELSE set_status_code(sp, status_code.val)

\* lines 193-195, after set_status_code gave c and payload['text'] gave text
send_text(c, text) ==
    IF c.exc # "None" THEN c
    ELSE IF text.exc # "None" THEN [exc |-> text.exc, span |-> c.span]
    ELSE [exc |-> "None",
          span |-> set_attribute(c.span, "http.status_text", text.val)]

\* lines 187-195: what the payload does to the send span sp; t is
\* payload['type']
send_status(sp, payload, t) ==
    IF t.exc # "None" THEN [exc |-> t.exc, span |-> sp]
    ELSE IF t.val = "http.response.start"
    THEN send_status_code(sp, DictItem(payload, "sattus"))
    ELSE IF t.val = "websocket.send"
    THEN send_text(set_status_code(sp, PyInt(200)), DictItem(payload, "text"))
    ELSE [exc |-> "None", span |-> sp]

\* lines 196-197 and the end of the with block
send_finish(w, id, payload, st) ==
    IF st.exc # "None"
    THEN [exc |-> st.exc,
          w |-> end_span([w EXCEPT !.spans[id] = st.span], id, "wrapped_send")]
    ELSE [exc |-> "None",
          w |-> end_span(
                  send([w EXCEPT !.spans[id] =
                          set_attribute(st.span, "type", payload["type"])],
                       payload),
                  id, "wrapped_send")]

\* lines 187-197 in the world w where the send span id has started
send_in_span(w, id, payload) ==
    send_finish(w, id, payload,
                send_status(w.spans[id], payload, DictItem(payload, "type")))

\* lines 184-197, once the span name is computed
send_named(span_name, payload, w, ty, sfx) ==
    IF ty.exc # "None" THEN [exc |-> ty.exc, w |-> w]
    ELSE IF sfx.exc # "None" THEN [exc |-> sfx.exc, w |-> w]
    ELSE send_in_span(start_span(w, span_name \o sfx.val, "INTERNAL",
                                 EmptyDict, "wrapped_send"),
                      Len(w.spans) + 1, payload)

\* wrapped_send(payload): outcome and world afterwards
wrapped_send(span_name, scope, payload, w) ==
    send_named(span_name, payload, w, DictItem(scope, "type"),
               format(<<[lit |-> " (asgi."], [field |-> "type"],
                        [lit |-> ".end)"]>>,
                      <<[type |-> DictGet(scope, "type", "None")]>>,
                      EmptyDict))

\* The wrapped application: it makes the calls of its script in order, a
\* step being [op |-> "receive"] or [op |-> "send", payload |-> p], and an
\* exception of a call leaves the application.
RECURSIVE app(_, _, _, _)

\* the application after the call of one step gave r
app_next(r, script, span_name, scope) ==
    IF r.exc # "None" THEN r ELSE app(script, span_name, scope, r.w)

app(script, span_name, scope, w) ==
    IF script = <<>> THEN [exc |-> "None", w |-> w]
    ELSE app_next(IF Head(script).op = "receive"
                  THEN wrapped_receive(span_name, scope, w)
                  ELSE wrapped_send(span_name, scope, Head(script).payload, w),
                  Tail(script), span_name, scope)

\* OpenTelemetryMiddleware.__init__
OpenTelemetryMiddleware(script) ==
    [app |-> script, name_callback |-> "get_default_span_name"]

\* self.name_callback(scope)
name_callback(self, scope) == get_default_span_name(scope)

\* propagators.extract(get_header_from_scope, scope): the propagator reads
\* its header through the getter
extract(scope) == get_header_from_scope(scope, "traceparent")

\* a mark in the log around the call of the application
app_mark(w, ev) ==
    [w EXCEPT !.log = Append(@, [ev |-> ev, span |-> 0, by |-> "__call__"])]

\* line 198, the application having run to r
app_returned(r) == [exc |-> r.exc, w |-> app_mark(r.w, "app_exit")]

\* lines 165-198, the arguments of start_span being computed: the with
\* block starts the connection span, defines the two wrappers and ends the
\* span; then the application is awaited
middleware_traced(self, scope, w, span_name, attributes) ==
    app_returned(
        app(self.app, span_name, scope,
            app_mark(end_span(start_span(w, span_name \o " (asgi_connection)",
                                         "SERVER", attributes, "__call__"),
                              Len(w.spans) + 1, "__call__"),
                     "app_enter")))

\* lines 162-169 with their outcomes
middleware_started(self, scope, w, parent_span, span_name, attributes) ==
    IF parent_span.exc # "None" THEN [exc |-> parent_span.exc, w |-> w]
    ELSE IF span_name.exc # "None" THEN [exc |-> span_name.exc, w |-> w]
    ELSE IF attributes.exc # "None" THEN [exc |-> attributes.exc, w |-> w]
    ELSE middleware_traced(self, scope, w, span_name.val, attributes.val)

\* OpenTelemetryMiddleware.__call__(scope, receive, send), from world w
middleware_call(self, scope, w) ==
    middleware_started(self, scope, w, extract(scope),
                       name_callback(self, scope),
                       collect_request_attributes(scope))

-----------------------------------------------------------------------------
(* Inputs.                                                                 *)

Codes == (0 - CodeBound)..CodeBound

\* status values handed to set_status_code: ints, numeric and non-numeric
\* strings, and None
StatusStrings ==
    {<<"2", "0", "0">>, <<"4", "0", "4">>, <<" ", "3", "0", "1", " ">>,
     <<"-", "1">>, <<"a", "b", "c">>, <<"2", "0", "0", "x">>, <<>>,
     <<"O", "K">>}

StatusValues ==
    {PyInt(n) : n \in Codes} \cup {PyStr(s) : s \in StatusStrings} \cup {PyNone}

\* a dict from the keys of ks that carry a value: opt maps a key to the empty
\* tuple (key absent) or to <<value>>
MakeDict(ks, opt) ==
    [k \in {x \in ks : opt[x] # <<>>} |-> opt[k][1]]

ScopeKeys ==
    {"type", "method", "scheme", "path", "http_version", "headers",
     "server", "client", "query_string"}

Servers == {<<>>, <<<<>>>>, <<<<"example.com", 80>>>>, <<<<"example.com", 8443>>>>}

Clients == {<<>>, <<<<>>>>, <<<<"10.0.0.1", 5000>>>>}

QueryStrings == {<<>>, <<PyBytes("")>>, <<PyBytes("q=1")>>, <<PyBytes("a%20b")>>}

HeaderLists ==
    {<<>>,
     <<<<"host", "a.com">>>>,
     <<<<"host", "a.com">>, <<"host", "b.com">>>>,
     <<<<"accept", "text/html">>, <<"host", "b.com">>, <<"traceparent", "00-1">>>>}

Protocols ==
    {[type |-> "http", scheme |-> "http", method |-> "GET"],
     [type |-> "http", scheme |-> "https", method |-> "POST"],
     [type |-> "websocket", scheme |-> "ws", method |-> "GET"]}

\* scopes with every required field and any combination of the optional ones
Scopes ==
    {MakeDict(ScopeKeys,
        [k \in ScopeKeys |->
            CASE k = "type" -> <<p.type>>
              [] k = "method" -> <<p.method>>
              [] k = "scheme" -> <<p.scheme>>
              [] k = "path" -> <<"/a">>
              [] k = "http_version" -> <<"1.1">>
              [] k = "headers" -> <<h>>
              [] k = "server" -> sv
              [] k = "client" -> cl
              [] k = "query_string" -> qs]) :
        p \in Protocols, h \in HeaderLists, sv \in Servers, cl \in Clients,
        qs \in QueryStrings}

HeaderNames == {"host", "accept", "traceparent", "cookie"}

\* events an application sends
SendPayloads ==
    {[type |-> "http.response.start", status |-> PyInt(200)],
     [type |-> "http.response.start", status |-> PyInt(404)],
     [type |-> "http.response.body"],
     [type |-> "websocket.send", text |-> "hi"],
     [type |-> "websocket.accept"]}

\* events the server delivers
Inboxes ==
    {<<>>,
     <<[type |-> "http.request"]>>,
     <<[type |-> "websocket.connect"], [type |-> "websocket.receive"]>>}

Steps == {[op |-> "receive"]} \cup {[op |-> "send", payload |-> p] : p \in SendPayloads}

Scripts == UNION {[1..n -> Steps] : n \in 0..MaxScript}

\* the scopes of the requests explored through the middleware
RequestScopes ==
    {sc \in Scopes : "query_string" \notin DOMAIN sc /\ "client" \in DOMAIN sc}

-----------------------------------------------------------------------------
(* State: the top-level call made (function and arguments), its outcome,   *)
(* and what it left behind in the tracer and at the server.  The module    *)
(* keeps nothing between calls, so a behaviour is one call from the        *)
(* initial state.                                                          *)

NoCall == [fn |-> "none"]

Init ==
    /\ call = NoCall
    /\ ret = Return(PyNone)
    /\ spans = <<>>
    /\ log = <<>>
    /\ sent = <<>>
    /\ got = <<>>

HttpStatusToCanonicalCode(code, allow_redirect) ==
    /\ call = NoCall
    /\ call' = [fn |-> "http_status_to_canonical_code", code |-> code,
                allow_redirect |-> allow_redirect]
    /\ ret' = Return(PyEnum(http_status_to_canonical_code(code,
                                                          allow_redirect)))
    /\ spans' = <<>>
    /\ log' = <<>>
    /\ sent' = <<>>
    /\ got' = <<>>

\* set_status_code on a fresh span
SetStatusCode(status_code) ==
    LET r == set_status_code(NewSpan("span", "INTERNAL", EmptyDict), status_code)
    IN  /\ call = NoCall
        /\ call' = [fn |-> "set_status_code", status_code |-> status_code]
        /\ ret' = IF r.exc = "None" THEN Return(PyNone) ELSE Raise(r.exc)
        /\ spans' = <<r.span>>
        /\ log' = <<>>
        /\ sent' = <<>>
        /\ got' = <<>>

GetHeaderFromScope(scope, header_name) ==
    /\ call = NoCall
    /\ call' = [fn |-> "get_header_from_scope", scope |-> scope,
                header_name |-> header_name]
    /\ ret' = LET r == get_header_from_scope(scope, header_name)
              IN  IF r.exc = "None" THEN Return(PyList(r.val)) ELSE Raise(r.exc)
    /\ spans' = <<>>
    /\ log' = <<>>
    /\ sent' = <<>>
    /\ got' = <<>>

CollectRequestAttributes(scope) ==
    /\ call = NoCall
    /\ call' = [fn |-> "collect_request_attributes", scope |-> scope]
    /\ ret' = LET r == collect_request_attributes(scope)
              IN  IF r.exc = "None" THEN Return(PyDict(r.val)) ELSE Raise(r.exc)
    /\ spans' = <<>>
    /\ log' = <<>>
    /\ sent' = <<>>
    /\ got' = <<>>

GetDefaultSpanName(scope) ==
    /\ call = NoCall
    /\ call' = [fn |-> "get_default_span_name", scope |-> scope]
    /\ ret' = LET r == get_default_span_name(scope)
              IN  IF r.exc = "None" THEN Return(PyText(r.val)) ELSE Raise(r.exc)
    /\ spans' = <<>>
    /\ log' = <<>>
    /\ sent' = <<>>
    /\ got' = <<>>

\* one request through a freshly constructed middleware
Request(scope, inbox, script) ==
    LET r == middleware_call(OpenTelemetryMiddleware(script), scope,
                             NewWorld(inbox))
    IN  /\ call = NoCall
        /\ call' = [fn |-> "__call__", scope |-> scope, inbox |-> inbox,
                    script |-> script]
        /\ ret' = IF r.exc = "None" THEN Return(PyNone) ELSE Raise(r.exc)
        /\ spans' = r.w.spans
        /\ log' = r.w.log
        /\ sent' = r.w.sent
        /\ got' = r.w.got

\* direct calls of the module-level functions
NextFunctions ==
    \/ \E code \in Codes, allow_redirect \in BOOLEAN :
          HttpStatusToCanonicalCode(code, allow_redirect)
    \/ \E status_code \in StatusValues : SetStatusCode(status_code)
    \/ \E scope \in Scopes, header_name \in HeaderNames :
          GetHeaderFromScope(scope, header_name)
    \/ \E scope \in Scopes : CollectRequestAttributes(scope)
    \/ \E scope \in Scopes : GetDefaultSpanName(scope)

\* requests through the middleware
NextRequest ==
    \E scope \in RequestScopes, inbox \in Inboxes, script \in Scripts :
        Request(scope, inbox, script)

Next == NextFunctions \/ NextRequest

SpecFunctions == Init /\ [][NextFunctions]_vars

SpecRequest == Init /\ [][NextRequest]_vars

Spec == Init /\ [][Next]_vars

-----------------------------------------------------------------------------
(* Properties of the status classifier and of set_status_code.             *)

\* the partition table of the status classifier, row by row
PartitionTable(code, allow_redirect) ==
    <<[when |-> code < 100, outcome |-> "UNKNOWN"],
      [when |-> 100 <= code /\ code <= 299, outcome |-> "OK"],
      [when |-> 300 <= code /\ code <= 399 /\ allow_redirect, outcome |-> "OK"],
      [when |-> 300 <= code /\ code <= 399 /\ ~allow_redirect,
       outcome |-> "DEADLINE_EXCEEDED"],
      [when |-> code = 401, outcome |-> "UNAUTHENTICATED"],
      [when |-> code = 403, outcome |-> "PERMISSION_DENIED"],
      [when |-> code = 404, outcome |-> "NOT_FOUND"],
      [when |-> code = 429, outcome |-> "RESOURCE_EXHAUSTED"],
      [when |-> 400 <= code /\ code <= 499 /\ code \notin {401, 403, 404, 429},
       outcome |-> "INVALID_ARGUMENT"],
      [when |-> code = 501, outcome |-> "UNIMPLEMENTED"],
      [when |-> code = 503, outcome |-> "UNAVAILABLE"],
      [when |-> code = 504, outcome |-> "DEADLINE_EXCEEDED"],
      [when |-> 500 <= code /\ code <= 599 /\ code \notin {501, 503, 504},
       outcome |-> "INTERNAL"],
      [when |-> code >= 600, outcome |-> "UNKNOWN"]>>

MatchingRows(code, allow_redirect) ==
    {i \in 1..Len(PartitionTable(code, allow_redirect)) :
        PartitionTable(code, allow_redirect)[i].when}

\* C1: http_status_to_canonical_code(code, allow_redirect) returns the
\* outcome of the one row of the partition table that matches the input:
\* exactly one row matches every integer code, the call returns that row's
\* outcome, and the other value of allow_redirect gives a different outcome
\* only for codes in 300..399.
Thm_C1_ClassifierFollowsTable ==
    call.fn = "http_status_to_canonical_code" =>
        /\ ret.exc = "None"
        /\ IsEnum(ret.val) /\ ret.val.enum \in StatusCanonicalCode
        /\ Cardinality(MatchingRows(call.code, call.allow_redirect)) = 1
        /\ \A i \in MatchingRows(call.code, call.allow_redirect) :
              ret.val = PyEnum(PartitionTable(call.code,
                                              call.allow_redirect)[i].outcome)
        /\ (PyEnum(http_status_to_canonical_code(call.code,
                                                  ~call.allow_redirect))
               # ret.val) => (300 <= call.code /\ call.code <= 399)
        /\ (300 <= call.code /\ call.code <= 399) =>
              (PyEnum(http_status_to_canonical_code(call.code,
                                                   ~call.allow_redirect))
                  # ret.val)

Wit_C1_RedirectNotAllowed ==
    /\ call.fn = "http_status_to_canonical_code"
    /\ call.code = 302
    /\ ~call.allow_redirect
    /\ ret = Return(PyEnum("DEADLINE_EXCEEDED"))

\* the text of a status value as the caller wrote it
RawText(v) == IF IsStr(v) THEN v.str ELSE repr(v)

\* C2: when set_status_code is given a value that cannot be coerced to an
\* integer, nothing is raised to the caller, the span's status is UNKNOWN
\* with a non-empty message that contains the rejected raw value, and the
\* http.status_code attribute is not set.
Claim_C2_CoercionFailureRecovered ==
    (call.fn = "set_status_code" /\ int(call.status_code).exc # "None") =>
        /\ ret.exc = "None"
        /\ Len(spans[1].status) = 1
        /\ spans[1].status[1].canonical_code = "UNKNOWN"
        /\ IsStr(spans[1].status[1].description)
        /\ spans[1].status[1].description.str # <<>>
        /\ Contains(spans[1].status[1].description.str,
                    RawText(call.status_code))
        /\ "http.status_code" \notin DOMAIN spans[1].attributes

\* C3: when set_status_code is given a value that coerces to an integer n,
\* the call returns with the attribute http.status_code equal to n and the
\* span's status equal to the classifier's outcome for n with redirects
\* allowed (OK for every 3xx), set once and without a message.
Thm_C3_CodeAndStatusRecorded ==
    (call.fn = "set_status_code" /\ int(call.status_code).exc = "None") =>
        LET n == int(call.status_code).val
        IN  /\ ret.exc = "None"
            /\ "http.status_code" \in DOMAIN spans[1].attributes
            /\ spans[1].attributes["http.status_code"] = n
            /\ spans[1].status =
                  <<Status(http_status_to_canonical_code(n, TRUE), PyNone)>>
            /\ (300 <= n /\ n <= 399) =>
                  spans[1].status[1].canonical_code = "OK"

Wit_C3_NumericString ==
    /\ call.fn = "set_status_code"
    /\ call.status_code = PyStr(<<"4", "0", "4">>)
    /\ ret.exc = "None"
    /\ spans[1].attributes["http.status_code"] = 404
    /\ spans[1].status = <<Status("NOT_FOUND", PyNone)>>

-----------------------------------------------------------------------------
(* Properties of the scope functions.                                      *)

\* percent-decoding of the query strings of the explored scopes
UrlDecoded(q) == IF q = "a%20b" THEN "a b" ELSE q

HasQuery(scope) ==
    "query_string" \in DOMAIN scope /\ scope["query_string"] # PyBytes("")

HasServer(scope) == "server" \in DOMAIN scope /\ scope["server"] # <<>>

HasClient(scope) == "client" \in DOMAIN scope /\ scope["client"] # <<>>

ServerOf(scope) == IF HasServer(scope) THEN scope["server"] ELSE <<"0.0.0.0", 80>>

DisplayHost(scope) ==
    IF ServerOf(scope)[2] = 80 THEN ServerOf(scope)[1]
    ELSE ServerOf(scope)[1] \o ":" \o str(ServerOf(scope)[2])

ExpectedUrl(scope) ==
    IF HasQuery(scope)
    THEN scope["scheme"] \o "://" \o DisplayHost(scope) \o scope["path"]
            \o "?" \o UrlDecoded(scope["query_string"].bytes)
    ELSE scope["scheme"] \o "://" \o DisplayHost(scope) \o scope["path"]

\* the values of the headers called name, in header order
RECURSIVE ValuesOf(_, _)
ValuesOf(headers, name) ==
    IF headers = <<>> THEN <<>>
    ELSE IF Head(headers)[1] = name
    THEN <<Head(headers)[2]>> \o ValuesOf(Tail(headers), name)
    ELSE ValuesOf(Tail(headers), name)

\* C5: collect_request_attributes never raises for a scope that has the
\* required fields, whatever optional fields are absent; the peer
\* attributes are present exactly when client is, http.server_name exactly
\* when a host header is, the URL has no '?' part without a query string,
\* and host and port default to 0.0.0.0 and 80 without a server.
Claim_C5_OptionalFieldsOmitted ==
    call.fn = "collect_request_attributes" =>
        /\ ret.exc = "None"
        /\ ("net.peer.ip" \in DOMAIN ret.val.dict) = HasClient(call.scope)
        /\ ("net.peer.port" \in DOMAIN ret.val.dict) = HasClient(call.scope)
        /\ ("http.server_name" \in DOMAIN ret.val.dict)
              = (ValuesOf(call.scope["headers"], "host") # <<>>)
        /\ ~HasQuery(call.scope) =>
              ret.val.dict["http.url"] = call.scope["scheme"] \o "://"
                    \o ret.val.dict["http.host"] \o call.scope["path"]
        /\ ~HasServer(call.scope) =>
              (ret.val.dict["http.host"] = "0.0.0.0" /\ ret.val.dict["host.port"] = 80)

\* C6: collect_request_attributes gives http.host the server host, with
\* ':' and the port appended exactly when the port is not 80, and http.url
\* the scheme, '://', that host and the path, followed by '?' and the
\* URL-decoded query string exactly when the query string is non-empty.
Claim_C6_UrlBuilt ==
    call.fn = "collect_request_attributes" =>
        /\ ret.exc = "None"
        /\ ret.val.dict["http.host"] = DisplayHost(call.scope)
        /\ ret.val.dict["http.url"] = ExpectedUrl(call.scope)

\* C7: get_header_from_scope returns every value of the headers with the
\* given name, in header order, and collect_request_attributes sets
\* http.server_name to the host values joined with ',' when there is one
\* and leaves the key out when there is none.
Claim_C7_HostHeaderJoined ==
    /\ call.fn = "get_header_from_scope" =>
          ret = Return(PyList(ValuesOf(call.scope["headers"],
                                        call.header_name)))
    /\ call.fn = "collect_request_attributes" =>
          /\ ret.exc = "None"
          /\ IF ValuesOf(call.scope["headers"], "host") = <<>>
             THEN "http.server_name" \notin DOMAIN ret.val.dict
             ELSE /\ "http.server_name" \in DOMAIN ret.val.dict
                  /\ ret.val.dict["http.server_name"]
                        = join(",", ValuesOf(call.scope["headers"], "host"))

\* C8: get_default_span_name(scope) returns, without raising, 'HTTP '
\* followed by the method of the scope.
Claim_C8_DefaultSpanName ==
    call.fn = "get_default_span_name" =>
        ret = Return(PyText("HTTP " \o call.scope["method"]))

-----------------------------------------------------------------------------
(* Properties of a request through the middleware.                         *)

\* positions in the log
LogAt(ev, id) == {i \in 1..Len(log) : log[i].ev = ev /\ log[i].span = id}

ConnectionSpans == {i \in 1..Len(spans) : spans[i].kind = "SERVER"}

\* the spans started by a function, in start order
StartedBy(by) ==
    LET starts == SelectSeq(log, LAMBDA e : e.ev = "start" /\ e.by = by)
    IN  [i \in 1..Len(starts) |-> starts[i].span]

\* the payloads the application passes to send, in order
PayloadsSent(script) ==
    LET sends == SelectSeq(script, LAMBDA st : st.op = "send")
    IN  [i \in 1..Len(sends) |-> sends[i].payload]

ReceiveCalls(script) == Len(SelectSeq(script, LAMBDA st : st.op = "receive"))

\* the events the server's receive returns to n calls
EventsReceived(inbox, n) ==
    [i \in 1..n |-> IF i <= Len(inbox) THEN inbox[i]
                    ELSE [type |-> "http.disconnect"]]

\* C4: a request starts exactly one connection span, before the
\* application starts, and ends it only after the application's call has
\* returned; every start and end of a receive or send span lies between
\* the start and the end of the connection span.
Claim_C4_SpansNested ==
    call.fn = "__call__" =>
        /\ Cardinality(ConnectionSpans) = 1
        /\ \A p \in ConnectionSpans :
              /\ \A s \in LogAt("start", p), a \in LogAt("app_enter", 0) : s < a
              /\ \A x \in LogAt("app_exit", 0), e \in LogAt("end", p) : x < e
              /\ LogAt("start", p) # {} /\ LogAt("end", p) # {}
              /\ LogAt("app_enter", 0) # {} /\ LogAt("app_exit", 0) # {}
              /\ \A i \in 1..Len(log) :
                    log[i].by \in {"wrapped_receive", "wrapped_send"} =>
                        /\ \A s \in LogAt("start", p) : s < i
                        /\ \A e \in LogAt("end", p) : i < e

\* what the send span of a payload must carry when it ends
SendSpanOk(span, payload) ==
    /\ span.ended
    /\ IF payload.type = "http.response.start"
       THEN /\ "http.status_code" \in DOMAIN span.attributes
            /\ span.attributes["http.status_code"] = payload.status.int
            /\ span.status =
                  <<Status(http_status_to_canonical_code(payload.status.int,
                                                         TRUE), PyNone)>>
       ELSE IF payload.type = "websocket.send"
       THEN /\ "http.status_code" \in DOMAIN span.attributes
            /\ span.attributes["http.status_code"] = 200
            /\ span.status = <<Status("OK", PyNone)>>
       ELSE span.status = <<>>

\* what the receive span of a received event must carry when it ends
ReceiveSpanOk(span, payload) ==
    /\ span.ended
    /\ IF payload.type = "websocket.receive"
       THEN /\ "http.status_code" \in DOMAIN span.attributes
            /\ span.attributes["http.status_code"] = 200
            /\ span.status = <<Status("OK", PyNone)>>
       ELSE span.status = <<>>

\* C9: every event the application passes to send gets one send span, which
\* ends with http.status_code equal to the event's status and the status
\* the classifier gives it for an http.response.start event, with 200 and
\* OK for a websocket.send event, and with no status for any other event;
\* every received event gets one receive span, with 200 and OK for a
\* websocket.receive event and no status otherwise.
Claim_C9_StatusPerEvent ==
    call.fn = "__call__" =>
        LET ps == PayloadsSent(call.script)
            rs == EventsReceived(call.inbox, ReceiveCalls(call.script))
        IN  /\ Len(StartedBy("wrapped_send")) = Len(ps)
            /\ \A k \in 1..Len(ps) :
                  SendSpanOk(spans[StartedBy("wrapped_send")[k]], ps[k])
            /\ Len(StartedBy("wrapped_receive")) = Len(rs)
            /\ \A k \in 1..Len(rs) :
                  ReceiveSpanOk(spans[StartedBy("wrapped_receive")[k]], rs[k])

\* C10: the events the application passes to send reach the server's send
\* once each, unchanged and in order, and every receive call of the
\* application gets the next event of the server's receive, unchanged.
Claim_C10_Transparent ==
    call.fn = "__call__" =>
        /\ sent = PayloadsSent(call.script)
        /\ got = EventsReceived(call.inbox, ReceiveCalls(call.script))

====
